---- MODULE Spec2Model ----
(***************************************************************************)
(* Model artifact resolution of cog-vllm (src/utils.py) and its streaming   *)
(* bridge (src/async_test.py).                                             *)
(*                                                                         *)
(* A Python str is modelled as a sequence of one-character strings, so     *)
(* that urlparse, os.path.basename, os.path.splitext, os.path.join and the *)
(* manifest formatting are computed character by character, as the code    *)
(* computes them.  A list[str] is a sequence of such sequences.            *)
(***************************************************************************)
EXTENDS Integers, Sequences, FiniteSets, TLC

VARIABLES
    fs,      \* the filesystem: directory path -> [exists, files]
    pc,      \* per process: where it stands in resolve_model_path
    ref,     \* per process: the argument url_or_local_path of the call
    res,     \* per process: what the call returned or raised
    trace,   \* per process: the events of the current call, in order
    obs,     \* per process: what a call observed (cache hit, probe answer)
    dl,      \* per process: the downloader subprocess it spawned
    stdin,   \* per process: the pipe to the downloader's standard input
    calls,   \* per process: number of calls of resolve_model_path so far
    returned,\* per process: the <<url, path>> download_tarball has returned
    engine,   \* the module-level name `engine` of async_test.py
    eengine,  \* per EEngine instance: its fields
    heap,     \* the list objects the caller owns, by name
    gen,      \* per instance: the generator sync_but_yield returned
    produced, \* per instance: the outputs taken from the engine's generator
    delivered,\* per instance: the values handed to the consumer
    pulls,    \* per instance: the values the consumer has asked for
    ended     \* per instance: how the consumer's iteration ended

\* the variables of the streaming bridge
bvars == <<engine, eengine, heap, gen, produced, delivered, pulls, ended>>

\* the variables of artifact resolution
rvars == <<fs, pc, ref, res, trace, obs, dl, stdin, calls, returned>>

vars == <<fs, pc, ref, res, trace, obs, dl, stdin, calls, returned,
          engine, eengine, heap, gen, produced, delivered, pulls, ended>>

-----------------------------------------------------------------------------
(* Bounds *)

\* calls of resolve_model_path one process makes
MaxCalls == 2
\* length of a list reference
MaxUrls == 2

-----------------------------------------------------------------------------
(* str methods and os.path / urllib.parse functions *)

LowerCase == <<"a","b","c","d","e","f","g","h","i","j","k","l","m",
               "n","o","p","q","r","s","t","u","v","w","x","y","z">>
UpperCase == <<"A","B","C","D","E","F","G","H","I","J","K","L","M",
               "N","O","P","Q","R","S","T","U","V","W","X","Y","Z">>
Digits == {"0","1","2","3","4","5","6","7","8","9"}

IsAlpha(c) == \E i \in 1..26 : LowerCase[i] = c \/ UpperCase[i] = c

\* str.lower, one character
LowerChar(c) ==
    IF \E i \in 1..26 : UpperCase[i] = c
    THEN LowerCase[CHOOSE i \in 1..26 : UpperCase[i] = c]
    ELSE c

RECURSIVE Lower(_)
\* str.lower
Lower(s) == IF s = <<>> THEN <<>> ELSE <<LowerChar(Head(s))>> \o Lower(Tail(s))

\* urllib.parse.scheme_chars
SchemeChars == {LowerCase[i] : i \in 1..26} \cup {UpperCase[i] : i \in 1..26}
               \cup Digits \cup {"+", "-", "."}

RECURSIVE Find(_, _, _)
\* s.find(c) from position i on: the least position >= i holding c; 0 for none
\* (positions count from 1, so Python's -1 is 0 here)
Find(s, c, i) ==
    IF i > Len(s) THEN 0
    ELSE IF s[i] = c THEN i
    ELSE Find(s, c, i + 1)

RECURSIVE RFind(_, _, _)
\* s.rfind(c) looking down from position i; 0 for none
RFind(s, c, i) ==
    IF i < 1 THEN 0
    ELSE IF s[i] = c THEN i
    ELSE RFind(s, c, i - 1)

\* s[i:] of Python, i counted from 1
From(s, i) == SubSeq(s, i, Len(s))

\* s.startswith(t)
StartsWith(s, t) == Len(s) >= Len(t) /\ SubSeq(s, 1, Len(t)) = t

\* posixpath.basename: i = p.rfind('/') + 1; return p[i:]
Basename(p) == From(p, RFind(p, "/", Len(p)) + 1)

\* posixpath.splitext(p)[0]: the last dot splits, unless it leads the name
SplitextRoot(p) ==
    LET sepIndex == RFind(p, "/", Len(p))
        dotIndex == RFind(p, ".", Len(p))
    IN  IF dotIndex > sepIndex
           /\ \E k \in (sepIndex + 1)..(dotIndex - 1) : p[k] # "."
        THEN SubSeq(p, 1, dotIndex - 1)
        ELSE p

\* posixpath.join(a, b)
Join(a, b) ==
    IF StartsWith(b, <<"/">>) THEN b
    ELSE IF a = <<>> \/ a[Len(a)] = "/" THEN a \o b
    ELSE a \o <<"/">> \o b

\* urlparse(url).scheme: the text before the first ':' when it is a scheme
SchemeEnd(url) ==
    LET i == Find(url, ":", 1)
    IN  IF i > 1 /\ IsAlpha(url[1])
           /\ \A k \in 1..(i - 1) : url[k] \in SchemeChars
        THEN i
        ELSE 0

UrlScheme(url) ==
    IF SchemeEnd(url) = 0 THEN <<>>
    ELSE Lower(SubSeq(url, 1, SchemeEnd(url) - 1))

\* the least position >= i of s holding one of the characters cs; Len(s)+1 for none
FirstOf(s, cs, i) ==
    IF \E k \in i..Len(s) : s[k] \in cs
    THEN CHOOSE k \in i..Len(s) :
            s[k] \in cs /\ \A j \in i..(k - 1) : s[j] \notin cs
    ELSE Len(s) + 1

\* urlparse(url).path: scheme, //netloc, #fragment and ?query taken off
UrlPath(url) ==
    LET rest == From(url, SchemeEnd(url) + 1)
        afterNetloc ==
            IF StartsWith(rest, <<"/", "/">>)
            THEN From(rest, FirstOf(rest, {"/", "?", "#"}, 3))
            ELSE rest
    IN  SubSeq(afterNetloc, 1, FirstOf(afterNetloc, {"#", "?"}, 1) - 1)

RECURSIVE SplitOn(_, _)
\* s.split(c): the pieces of s between the occurrences of c
SplitOn(s, c) ==
    LET i == Find(s, c, 1)
    IN  IF i = 0 THEN <<s>>
        ELSE <<SubSeq(s, 1, i - 1)>> \o SplitOn(From(s, i + 1), c)

RECURSIVE JoinWith(_, _)
\* sep.join(parts)
JoinWith(sep, parts) ==
    IF parts = <<>> THEN <<>>
    ELSE IF Len(parts) = 1 THEN parts[1]
    ELSE parts[1] \o sep \o JoinWith(sep, Tail(parts))

-----------------------------------------------------------------------------
(* The process environment and the references the model draws from *)

\* os.getcwd()
Cwd == <<"/", "w">>

S_http == <<"h","t","t","p">>
S_https == <<"h","t","t","p","s">>
S_file == <<"f","i","l","e">>
S_model == <<"m","o","d","e","l">>
S_models == <<"m","o","d","e","l","s">>

\* "http://h/a.t"
UrlA == <<"h","t","t","p",":","/","/","h","/","a",".","t">>
\* "http://h/b.t"
UrlB == <<"h","t","t","p",":","/","/","h","/","b",".","t">>
\* "HTTPS://h/a.z": the same name as UrlA once the extension is stripped
UrlAz == <<"H","T","T","P","S",":","/","/","h","/","a",".","z">>
\* "file:///d"
FileD == <<"f","i","l","e",":","/","/","/","d">>
\* "/d"
PathD == <<"/","d">>
\* "o/m"
HubId == <<"o","/","m">>
\* "ftp://h/p"
FtpP == <<"f","t","p",":","/","/","h","/","p">>

\* the URLs a list reference is made of
ListUrls == {UrlA, UrlB}

RECURSIVE SeqsUpTo(_, _)
\* the sequences over S of length at most n
SeqsUpTo(S, n) ==
    IF n = 0 THEN {<<>>}
    ELSE LET shorter == SeqsUpTo(S, n - 1)
         IN  shorter \cup {Append(q, x) : q \in shorter, x \in S}

\* a reference is a str (isList FALSE, s) or a list[str] (isList TRUE, urls)
StrRef(s) == [isList |-> FALSE, s |-> s, urls |-> <<>>]
ListRef(urls) == [isList |-> TRUE, s |-> <<>>, urls |-> urls]

StrRefs == {StrRef(s) : s \in {UrlA, UrlAz, FileD, PathD, HubId, FtpP}}
ListRefs == {ListRef(q) : q \in SeqsUpTo(ListUrls, MaxUrls)}
Refs == StrRefs \cup ListRefs
NoRef == StrRef(<<>>)

Procs == {"p1", "p2"}
\* the process that resolves the model reference at startup
Main == "p1"

-----------------------------------------------------------------------------
(* The filesystem *)

\* a path as the kernel resolves it: relative paths start at the cwd
Abs(path) == Join(Cwd, path)

\* download_tarball's filename and path
TarFilename(url) == SplitextRoot(Basename(url))
TarPath(url) == Join(Join(Cwd, S_models), TarFilename(url))

\* download_multi's outdir
OutDir == Join(Cwd, S_model)

\* the directory snapshot_download materialises for a Hub model and returns
HubSnapshot(name) == <<"/", "c", "/">> \o name

\* the directories of the model
Paths == {TarPath(UrlA), TarPath(UrlAz), OutDir, UrlPath(FileD), UrlPath(PathD),
          Abs(UrlPath(HubId)), HubSnapshot(HubId)}

File(name, src) == [name |-> name, src |-> src]
Absent == [exists |-> FALSE, files |-> {}]
EmptyDir == [exists |-> TRUE, files |-> {}]
Dir(files) == [exists |-> TRUE, files |-> files]

\* os.path.exists(path)
Exists(f, path) == Abs(path) \in DOMAIN f /\ f[Abs(path)].exists

\* os.listdir(path), of a directory that exists
Listdir(f, path) == {x.name : x \in f[Abs(path)].files}

\* a file written at dest (directories made on the way); writes outside the
\* modelled directories are not tracked
WriteFile(f, dir, file) ==
    IF Abs(dir) \in DOMAIN f
    THEN [f EXCEPT ![Abs(dir)] =
            Dir({x \in @.files : x.name # file.name} \cup {file})]
    ELSE f

\* os.makedirs(path)
Makedirs(f, path) ==
    IF Abs(path) \in DOMAIN f THEN [f EXCEPT ![Abs(path)] = Dir(@.files)] ELSE f

\* what a directory may hold before the process starts
InitialDirs(path) ==
    IF path = TarPath(UrlA) THEN {Absent, EmptyDir, Dir({File(<<"w">>, <<>>)})}
    ELSE IF path = OutDir THEN {Absent, Dir({File(Basename(UrlA), UrlA)})}
    ELSE IF path = UrlPath(PathD) THEN {Absent, EmptyDir, Dir({File(<<"w">>, <<>>)})}
    ELSE IF path = Abs(UrlPath(HubId)) THEN {Absent, Dir({File(<<"w">>, <<>>)})}
    ELSE {Absent}

-----------------------------------------------------------------------------
(* Results, the Hub lookup and the downloader *)

NoRes == [kind |-> "none", val |-> <<>>, exc |-> "", code |-> "", what |-> "",
          arg |-> <<>>]
\* return val
Ok(val) == [kind |-> "ok", val |-> val, exc |-> "", code |-> "", what |-> "",
            arg |-> <<>>]
\* raise exc(f"{code}: ... {what} ... {arg}")
Raise(exc, code, what, arg) ==
    [kind |-> "err", val |-> <<>>, exc |-> exc, code |-> code, what |-> what,
     arg |-> arg]

\* the names the Hub accepts as a repo id: 'name' or 'namespace/name'
ValidRepoId(name) ==
    /\ name # <<>>
    /\ \A k \in 1..Len(name) :
          IsAlpha(name[k]) \/ name[k] \in Digits \cup {"-", "_", ".", "/"}
    /\ Len(SplitOn(name, "/")) <= 2
    /\ \A part \in {SplitOn(name, "/")[k] : k \in 1..Len(SplitOn(name, "/"))} :
          part # <<>>

\* how model_info(name) may end: it returns ("ok") or raises the named exception
LookupOutcomes(name) ==
    IF ValidRepoId(name)
    THEN {"ok", "RepositoryNotFoundError", "GatedRepoError", "ConnectionError"}
    ELSE {"RepositoryNotFoundError", "HFValidationError", "ConnectionError"}

\* the exceptions `except requests.exceptions.HTTPError` catches
IsHTTPError(outcome) == outcome \in {"RepositoryNotFoundError", "GatedRepoError"}

NoDl == [st |-> "none", mode |-> "", url |-> <<>>, dest |-> <<>>, fetched |-> 0,
         code |-> 0]
NoPipe == [open |-> FALSE, buf |-> <<>>]
NoObs == [hit |-> FALSE, probe |-> "none", lookup |-> ""]

\* the manifest as the downloader reads it: one <<url, dest>> per non-empty line
ManifestEntries(buf) ==
    LET lines == SelectSeq(SplitOn(buf, "\n"), LAMBDA l : l # <<>>)
    IN  [k \in 1..Len(lines) |-> SplitOn(lines[k], " ")]

\* posixpath.dirname
Dirname(p) ==
    LET i == RFind(p, "/", Len(p))
    IN  IF i <= 1 THEN SubSeq(p, 1, i) ELSE SubSeq(p, 1, i - 1)

-----------------------------------------------------------------------------
(* The streaming bridge: its bounds, its inputs and its environment *)

\* outputs one request takes from the engine
MaxIncr == 2

\* requests one EEngine instance serves
MaxRequests == 2

\* floats are counted in millionths: 1e-5 and 1.0
Eps == 10
One == 1000000

\* tokenizer.eos_token_id
EosTokenId == 2

\* tokenizer.decode: distinct ids decode to distinct strings
Decode(tid) == <<"tok", tid>>

\* the engines of the process, and the state of a name that was never assigned
Engines == {"A", "B"}
Unbound == "unbound"

\* the EEngine instances: e1 = EEngine(A), e2 = EEngine(B)
Insts == {"e1", "e2"}

\* the texts an engine output can carry, and the prompt of a request
Texts == {<<"a">>, <<"b">>}
Prompt == <<"H", "i">>

\* an argument is None, a str, or a reference to a list object of the caller
None == [kind |-> "none", s |-> "", at |-> ""]
Str(x) == [kind |-> "str", s |-> x, at |-> ""]
ListAt(a) == [kind |-> "list", s |-> "", at |-> a]

\* the caller's list objects as they are before any request
Heap0 == [a \in {"ids0", "ids", "strs0", "strs"} |->
             CASE a = "ids"  -> <<5>>
               [] a = "strs" -> <<"x">>
               [] OTHER      -> <<>>]

Temperatures == {0, Eps, Eps + 1, One}
TopPs == {0, Eps + 1, One}
StopStrs == {None, Str(""), Str("x"), ListAt("strs0"), ListAt("strs")}
StopTokenIds == {None, ListAt("ids0"), ListAt("ids")}

\* the arguments of generate_stream / sync_but_yield
Args(rid, t, tp, ss, ids, e) ==
    [prompt |-> Prompt, request_id |-> rid, temperature |-> t, top_p |-> tp,
     max_new_tokens |-> 4, stop_str |-> ss, stop_token_ids |-> ids, echo |-> e]

\* sync_but_yield called with its defaults but for echo
DefaultArgs == {Args(rid, One, One, None, None, e) :
                   rid \in 1..MaxRequests, e \in BOOLEAN}

\* every combination of the sampling arguments and echo, no stop argument
SamplingArgs == {Args(rid, t, tp, None, None, e) :
                    rid \in 1..MaxRequests, t \in Temperatures, tp \in TopPs,
                    e \in BOOLEAN}

\* every combination of the stop arguments, default sampling arguments
StopArgs == {Args(rid, One, One, ss, ids, FALSE) :
                rid \in 1..MaxRequests, ss \in StopStrs, ids \in StopTokenIds}

\* generate_stream handles the two groups of arguments independently
RequestArgs == SamplingArgs \cup StopArgs

NoArgs == Args(0, One, One, None, None, FALSE)

\* SamplingParams(n=1, temperature, top_p, use_beam_search=False, stop, max_tokens)
SamplingParams(t, tp, stop, mx) ==
    [n |-> 1, temperature |-> t, top_p |-> tp, use_beam_search |-> FALSE,
     stop |-> stop, max_tokens |-> mx]

NoParams == SamplingParams(0, 0, <<>>, 0)

\* one output of the engine's generator; `by` records the engine that made it
RequestOutput(by, rid, prompt, text) ==
    [by |-> by, request_id |-> rid, prompt |-> prompt, outputs |-> <<[text |-> text]>>]

\* no generator: sync_but_yield has not been called on the instance
NoGen == [pc |-> "none", args |-> NoArgs, sampling_params |-> NoParams,
          by |-> "none", n |-> 0, raised |-> "none"]

\* the instances as constructed, no request made
Constructed ==
    /\ eengine = [i \in Insts |-> [engine |-> IF i = "e1" THEN "A" ELSE "B"]]
    /\ heap = Heap0
    /\ gen = [i \in Insts |-> NoGen]
    /\ produced = [i \in Insts |-> <<>>]
    /\ delivered = [i \in Insts |-> <<>>]
    /\ pulls = [i \in Insts |-> 0]
    /\ ended = [i \in Insts |-> "none"]

TypeOK ==
    /\ DOMAIN fs = Paths
    /\ \A d \in Paths : fs[d].exists \in BOOLEAN
    /\ pc \in [Procs -> {"idle", "probe", "snapshot", "local", "tarball", "tar_wait",
                         "multi_makedirs", "multi_popen", "multi_write",
                         "multi_communicate", "multi_wait", "done"}]
    /\ \A p \in Procs : ref[p] \in Refs \cup {NoRef}
    /\ \A p \in Procs : res[p].kind \in {"none", "ok", "err"}
    /\ \A p \in Procs : dl[p].st \in {"none", "running", "exited"}
    /\ \A p \in Procs : calls[p] \in 0..MaxCalls

Init ==
    /\ fs \in {f \in [Paths -> {Absent, EmptyDir, Dir({File(<<"w">>, <<>>)}),
                                Dir({File(Basename(UrlA), UrlA)})}] :
                 \A d \in Paths : f[d] \in InitialDirs(d)}
    /\ pc = [p \in Procs |-> "idle"]
    /\ ref = [p \in Procs |-> NoRef]
    /\ res = [p \in Procs |-> NoRes]
    /\ trace = [p \in Procs |-> <<>>]
    /\ obs = [p \in Procs |-> NoObs]
    /\ dl = [p \in Procs |-> NoDl]
    /\ stdin = [p \in Procs |-> NoPipe]
    /\ calls = [p \in Procs |-> 0]
    /\ returned = [p \in Procs |-> {}]
    /\ engine = Unbound
    /\ Constructed

-----------------------------------------------------------------------------
(* resolve_model_path *)

\* Route with the local schemes tested before the Hub probe
RouteLocalFirst(r) ==
    IF r.isList THEN "multi_makedirs"
    ELSE IF UrlScheme(r.s) = S_http \/ UrlScheme(r.s) = S_https THEN "tarball"
    ELSE IF UrlScheme(r.s) = S_file \/ UrlScheme(r.s) = <<>> THEN "local"
    ELSE "probe"

\* the branch resolve_model_path takes on entry: the list test, then the
\* http/https test, then the Hub probe
Route(r) ==
    IF r.isList THEN "multi_makedirs"
    ELSE IF UrlScheme(r.s) = S_http \/ UrlScheme(r.s) = S_https THEN "tarball"
    ELSE "probe"

\* a call: the argument is bound and the first branch taken
resolve_model_path(p, r) ==
    /\ pc[p] \in {"idle", "done"}
    /\ calls[p] < MaxCalls
    /\ calls' = [calls EXCEPT ![p] = @ + 1]
    /\ ref' = [ref EXCEPT ![p] = r]
    /\ pc' = [pc EXCEPT ![p] = Route(r)]
    /\ trace' = [trace EXCEPT ![p] =
                    IF Route(r) = "multi_makedirs" THEN <<"download_multi">>
                    ELSE IF Route(r) = "tarball" THEN <<"download_tarball">>
                    ELSE <<>>]
    /\ res' = [res EXCEPT ![p] = NoRes]
    /\ obs' = [obs EXCEPT ![p] = NoObs]
    /\ dl' = [dl EXCEPT ![p] = NoDl]
    /\ stdin' = [stdin EXCEPT ![p] = NoPipe]
    /\ UNCHANGED <<fs, returned, bvars>>

\* is_hf_model's answer to the way model_info ended
ProbeResult(outcome) ==
    IF outcome = "ok" THEN "true"
    ELSE IF IsHTTPError(outcome) THEN "false"
    ELSE "raised"

\* elif is_hf_model(url_or_local_path)
is_hf_model(p) ==
    /\ pc[p] = "probe"
    /\ \E outcome \in LookupOutcomes(ref[p].s) :
          /\ obs' = [obs EXCEPT ![p].probe = ProbeResult(outcome),
                                ![p].lookup = outcome]
          /\ pc' = [pc EXCEPT ![p] =
                       IF ProbeResult(outcome) = "true" THEN "snapshot"
                       ELSE IF ProbeResult(outcome) = "false" THEN "local"
                       ELSE "done"]
          /\ res' = [res EXCEPT ![p] =
                        IF ProbeResult(outcome) = "raised"
                        THEN Raise(outcome, "", "", <<>>)
                        ELSE @]
    /\ trace' = [trace EXCEPT ![p] = Append(@, "is_hf_model")]
    /\ UNCHANGED <<fs, ref, dl, stdin, calls, returned, bvars>>

\* return snapshot_download(url_or_local_path): the Hub client materialises
\* the snapshot and returns its directory, or raises
snapshot_download(p) ==
    /\ pc[p] = "snapshot"
    /\ \E ok \in BOOLEAN :
          IF ok
          THEN /\ fs' = WriteFile(fs, HubSnapshot(ref[p].s),
                                  File(<<"w">>, ref[p].s))
               /\ res' = [res EXCEPT ![p] = Ok(HubSnapshot(ref[p].s))]
          ELSE /\ fs' = fs
               /\ res' = [res EXCEPT ![p] = Raise("ConnectionError", "", "", <<>>)]
    /\ pc' = [pc EXCEPT ![p] = "done"]
    /\ trace' = [trace EXCEPT ![p] = Append(@, "snapshot_download")]
    /\ UNCHANGED <<ref, obs, dl, stdin, calls, returned, bvars>>

\* LocalResult returning the parsed path instead of the reference
LocalResultParsedPath(f, s) ==
    IF UrlScheme(s) = S_file \/ UrlScheme(s) = <<>>
    THEN IF ~Exists(f, UrlPath(s))
         THEN Raise("ValueError", "E1000", "does not exist", UrlPath(s))
         ELSE IF Listdir(f, UrlPath(s)) = {}
         THEN Raise("ValueError", "E1000", "is empty", UrlPath(s))
         ELSE Ok(UrlPath(s))
    ELSE Raise("ValueError", "E1000", "Unsupported model path scheme",
               UrlScheme(s))

\* LocalResult with the scheme test dropped: every reference the probe
\* rejected is taken for a local path
LocalResultAnyScheme(f, s) ==
    IF ~Exists(f, UrlPath(s))
    THEN Raise("ValueError", "E1000", "does not exist", UrlPath(s))
    ELSE IF Listdir(f, UrlPath(s)) = {}
    THEN Raise("ValueError", "E1000", "is empty", UrlPath(s))
    ELSE Ok(s)

\* the last two branches: scheme "file" or "" validates the local path and
\* returns the reference; any other scheme is unsupported
LocalResult(f, s) ==
    IF UrlScheme(s) = S_file \/ UrlScheme(s) = <<>>
    THEN IF ~Exists(f, UrlPath(s))
         THEN Raise("ValueError", "E1000", "does not exist", UrlPath(s))
         ELSE IF Listdir(f, UrlPath(s)) = {}
         THEN Raise("ValueError", "E1000", "is empty", UrlPath(s))
         ELSE Ok(s)
    ELSE Raise("ValueError", "E1000", "Unsupported model path scheme",
               UrlScheme(s))

local_path(p) ==
    /\ pc[p] = "local"
    /\ res' = [res EXCEPT ![p] = LocalResult(fs, ref[p].s)]
    /\ pc' = [pc EXCEPT ![p] = "done"]
    /\ trace' = [trace EXCEPT ![p] =
                    IF LocalResult(fs, ref[p].s).what = "Unsupported model path scheme"
                    THEN Append(@, "unsupported")
                    ELSE Append(@, "local_path")]
    /\ UNCHANGED <<fs, ref, obs, dl, stdin, calls, returned, bvars>>

-----------------------------------------------------------------------------
(* download_tarball *)

\* AlreadyPresent with the listing test inverted
AlreadyPresentInverted(f, path) == Exists(f, path) /\ Listdir(f, path) = {}

\* AlreadyPresent with the test gone: every call downloads
AlreadyPresentNever(f, path) == FALSE

\* os.path.exists(path) and os.listdir(path)
AlreadyPresent(f, path) == Exists(f, path) /\ Listdir(f, path) # {}

\* the short-circuit, or the downloader spawned: pget url path -x
download_tarball(p) ==
    /\ pc[p] = "tarball"
    /\ obs' = [obs EXCEPT ![p].hit = (fs[TarPath(ref[p].s)].files # {})]
    /\ IF AlreadyPresent(fs, TarPath(ref[p].s))
       THEN /\ res' = [res EXCEPT ![p] = Ok(TarPath(ref[p].s))]
            /\ returned' = [returned EXCEPT ![p] =
                               @ \cup {<<ref[p].s, TarPath(ref[p].s)>>}]
            /\ pc' = [pc EXCEPT ![p] = "done"]
            /\ trace' = [trace EXCEPT ![p] = Append(@, "return")]
            /\ dl' = dl
       ELSE /\ dl' = [dl EXCEPT ![p] =
                         [st |-> "running", mode |-> "single", url |-> ref[p].s,
                          dest |-> TarPath(ref[p].s), fetched |-> 0, code |-> 0]]
            /\ pc' = [pc EXCEPT ![p] = "tar_wait"]
            /\ trace' = [trace EXCEPT ![p] = Append(@, "spawn")]
            /\ UNCHANGED <<res, returned>>
    /\ UNCHANGED <<fs, ref, stdin, calls, bvars>>

\* subprocess.call in place of check_call: the exit code is dropped
CheckCallIgnored(code, path) == Ok(path)

\* subprocess.check_call: CalledProcessError on a non-zero exit
CheckCall(code, path) ==
    IF code # 0 THEN Raise("CalledProcessError", "", "", <<>>) ELSE Ok(path)

\* check_call returns once the downloader has exited
download_tarball_wait(p) ==
    /\ pc[p] = "tar_wait"
    /\ dl[p].st = "exited"
    /\ res' = [res EXCEPT ![p] = CheckCall(dl[p].code, dl[p].dest)]
    /\ returned' = [returned EXCEPT ![p] =
                       IF CheckCall(dl[p].code, dl[p].dest).kind = "ok"
                       THEN @ \cup {<<ref[p].s, CheckCall(dl[p].code, dl[p].dest).val>>}
                       ELSE @]
    /\ trace' = [trace EXCEPT ![p] =
                    IF CheckCall(dl[p].code, dl[p].dest).kind = "ok"
                    THEN Append(@, "return")
                    ELSE Append(@, "raise")]
    /\ pc' = [pc EXCEPT ![p] = "done"]
    /\ UNCHANGED <<fs, ref, obs, dl, stdin, calls, bvars>>

-----------------------------------------------------------------------------
(* download_multi *)

\* ManifestLine without os.path.basename
ManifestLineFullUrl(url, outdir) == url \o <<" ">> \o Join(outdir, url)

\* "{} {}".format(url, os.path.join(outdir, os.path.basename(url)))
ManifestLine(url, outdir) == url \o <<" ">> \o Join(outdir, Basename(url))

RECURSIVE ManifestLines(_, _)
\* the list comprehension over urls
ManifestLines(urls, outdir) ==
    IF urls = <<>> THEN <<>>
    ELSE <<ManifestLine(Head(urls), outdir)>> \o ManifestLines(Tail(urls), outdir)

\* manifest = "\n".join([...])
Manifest(urls, outdir) == JoinWith(<<"\n">>, ManifestLines(urls, outdir))

\* download_multi with download_tarball's short-circuit on a populated outdir
download_multi_shortcircuit(p) ==
    /\ pc[p] = "multi_makedirs"
    /\ obs' = [obs EXCEPT ![p].hit = (fs[OutDir].files # {})]
    /\ IF Exists(fs, OutDir) /\ Listdir(fs, OutDir) # {}
       THEN /\ res' = [res EXCEPT ![p] = Ok(OutDir)]
            /\ trace' = [trace EXCEPT ![p] = Append(@, "return")]
            /\ pc' = [pc EXCEPT ![p] = "done"]
            /\ fs' = fs
       ELSE /\ IF ~Exists(fs, OutDir)
               THEN /\ fs' = Makedirs(fs, OutDir)
                    /\ trace' = [trace EXCEPT ![p] = Append(@, "makedirs")]
               ELSE UNCHANGED <<fs, trace>>
            /\ pc' = [pc EXCEPT ![p] = "multi_popen"]
            /\ res' = res
    /\ UNCHANGED <<ref, dl, stdin, calls, returned, bvars>>

\* if not os.path.exists(outdir): os.makedirs(outdir)
download_multi_makedirs(p) ==
    /\ pc[p] = "multi_makedirs"
    /\ obs' = [obs EXCEPT ![p].hit = (fs[OutDir].files # {})]
    /\ IF ~Exists(fs, OutDir)
       THEN /\ fs' = Makedirs(fs, OutDir)
            /\ trace' = [trace EXCEPT ![p] = Append(@, "makedirs")]
       ELSE UNCHANGED <<fs, trace>>
    /\ pc' = [pc EXCEPT ![p] = "multi_popen"]
    /\ UNCHANGED <<ref, res, dl, stdin, calls, returned, bvars>>

\* proc = subprocess.Popen(["pget", "multifile", "-"], stdin=subprocess.PIPE)
download_multi_popen(p) ==
    /\ pc[p] = "multi_popen"
    /\ dl' = [dl EXCEPT ![p] =
                 [st |-> "running", mode |-> "multifile", url |-> <<>>,
                  dest |-> <<>>, fetched |-> 0, code |-> 0]]
    /\ stdin' = [stdin EXCEPT ![p] = [open |-> TRUE, buf |-> <<>>]]
    /\ trace' = [trace EXCEPT ![p] = Append(@, "spawn")]
    /\ pc' = [pc EXCEPT ![p] = "multi_write"]
    /\ UNCHANGED <<fs, ref, res, obs, calls, returned, bvars>>

\* proc.stdin.write(manifest.encode("utf-8")): the bytes go to the pipe's
\* buffer, also when the downloader has exited already
download_multi_write(p) ==
    /\ pc[p] = "multi_write"
    /\ stdin' = [stdin EXCEPT ![p].buf = @ \o Manifest(ref[p].urls, OutDir)]
    /\ trace' = [trace EXCEPT ![p] = Append(@, "write")]
    /\ pc' = [pc EXCEPT ![p] = "multi_communicate"]
    /\ UNCHANGED <<fs, ref, res, obs, dl, calls, returned, bvars>>

\* proc.communicate(), first half: stdin is flushed and closed
download_multi_communicate(p) ==
    /\ pc[p] = "multi_communicate"
    /\ stdin' = [stdin EXCEPT ![p].open = FALSE]
    /\ trace' = [trace EXCEPT ![p] = Append(@, "close")]
    /\ pc' = [pc EXCEPT ![p] = "multi_wait"]
    /\ UNCHANGED <<fs, ref, res, obs, dl, calls, returned, bvars>>

\* what download_multi returns once communicate() has returned: the exit
\* code of the downloader is not read
MultiResult(code, outdir) == Ok(outdir)

\* proc.communicate(), second half: wait for the exit; then return outdir
download_multi_return(p) ==
    /\ pc[p] = "multi_wait"
    /\ dl[p].st = "exited"
    /\ res' = [res EXCEPT ![p] = MultiResult(dl[p].code, OutDir)]
    /\ trace' = [trace EXCEPT ![p] =
                    IF MultiResult(dl[p].code, OutDir).kind = "ok"
                    THEN Append(@, "return")
                    ELSE Append(@, "raise")]
    /\ pc' = [pc EXCEPT ![p] = "done"]
    /\ UNCHANGED <<fs, ref, obs, dl, stdin, calls, returned, bvars>>

-----------------------------------------------------------------------------
(* pget, the external downloader *)

\* the work of a downloader: one archive, or the entries of the manifest it
\* has read up to the end of its input
DlEntries(p) ==
    IF dl[p].mode = "single" THEN <<<<dl[p].url, dl[p].dest>>>>
    ELSE IF stdin[p].open THEN <<>>
    ELSE ManifestEntries(stdin[p].buf)

\* a downloader has all it was asked for
DlComplete(p) ==
    /\ dl[p].mode = "multifile" => ~stdin[p].open
    /\ \A k \in 1..Len(DlEntries(p)) : Len(DlEntries(p)[k]) = 2
    /\ dl[p].fetched = Len(DlEntries(p))

\* the next entry is fetched: an archive is extracted into its destination
\* directory, a manifest entry is written at its destination path
pget_fetch(p) ==
    /\ dl[p].st = "running"
    /\ dl[p].fetched < Len(DlEntries(p))
    /\ LET entry == DlEntries(p)[dl[p].fetched + 1]
       IN  /\ Len(entry) = 2
           /\ fs' = IF dl[p].mode = "single"
                    THEN WriteFile(fs, entry[2], File(<<"w">>, entry[1]))
                    ELSE WriteFile(fs, Dirname(entry[2]),
                                   File(Basename(entry[2]), entry[1]))
    /\ dl' = [dl EXCEPT ![p].fetched = @ + 1]
    /\ UNCHANGED <<pc, ref, res, trace, obs, stdin, calls, returned, bvars>>

\* the downloader exits: with 0 only when it has all it was asked for
pget_exit(p, code) ==
    /\ dl[p].st = "running"
    /\ code = 0 => DlComplete(p)
    /\ dl' = [dl EXCEPT ![p].st = "exited", ![p].code = code]
    /\ trace' = [trace EXCEPT ![p] = Append(@, "exit")]
    /\ UNCHANGED <<fs, pc, ref, res, obs, stdin, calls, returned, bvars>>

-----------------------------------------------------------------------------
(* The specification: one process resolving references one after another *)

Step(p) ==
    \/ \E r \in Refs : resolve_model_path(p, r)
    \/ is_hf_model(p)
    \/ snapshot_download(p)
    \/ local_path(p)
    \/ download_tarball(p)
    \/ download_tarball_wait(p)
    \/ download_multi_makedirs(p)
    \/ download_multi_popen(p)
    \/ download_multi_write(p)
    \/ download_multi_communicate(p)
    \/ download_multi_return(p)
    \/ pget_fetch(p)
    \/ \E code \in {0, 1} : pget_exit(p, code)

Next == Step(Main)

Spec == Init /\ [][Next]_vars

-----------------------------------------------------------------------------
(* Two processes started in the same cwd, each calling download_tarball *)

StepRace(p) ==
    \/ \E r \in {x \in Refs : Route(x) = "tarball"} : resolve_model_path(p, r)
    \/ download_tarball(p)
    \/ download_tarball_wait(p)
    \/ pget_fetch(p)
    \/ \E code \in {0, 1} : pget_exit(p, code)

NextRace == \E p \in Procs : StepRace(p)

\* only the cache directory matters here: the other directories are absent
InitRace == Init /\ \A d \in Paths \ {TarPath(UrlA)} : fs[d] = Absent

SpecRace == InitRace /\ [][NextRace]_vars

-----------------------------------------------------------------------------
(* The streaming bridge: EEngine.generate_stream and EEngine.sync_but_yield *)

\* `stop_token_ids or []` keeps the caller's own list object when it is non-empty
IdsAliased(a, h) ==
    a.stop_token_ids.kind = "list" /\ h[a.stop_token_ids.at] # <<>>

\* stop_token_ids after `stop_token_ids.append(self.tokenizer.eos_token_id)`
StopTokenIdsOf(a, h) ==
    (IF IdsAliased(a, h) THEN h[a.stop_token_ids.at] ELSE <<>>) \o <<EosTokenId>>

\* `stop = stop_str` keeps the caller's own list object when it is non-empty
StopAliased(a, h) ==
    a.stop_str.kind = "list" /\ h[a.stop_str.at] # <<>>

\* stop as the if / elif / else leaves it
StopBase(a, h) ==
    IF a.stop_str.kind = "str" /\ a.stop_str.s # "" THEN <<a.stop_str.s>>
    ELSE IF StopAliased(a, h) THEN h[a.stop_str.at]
    ELSE <<>>

RECURSIVE DecodeAll(_)
DecodeAll(ids) ==
    IF ids = <<>> THEN <<>> ELSE <<Decode(Head(ids))>> \o DecodeAll(Tail(ids))

\* stop after `for tid in stop_token_ids: stop.append(self.tokenizer.decode(tid))`
StopOf(a, h) == StopBase(a, h) \o DecodeAll(StopTokenIdsOf(a, h))

\* the caller's list objects after the two append loops
HeapAfter(a, h) ==
    [x \in DOMAIN h |->
        IF IdsAliased(a, h) /\ x = a.stop_token_ids.at THEN StopTokenIdsOf(a, h)
        ELSE IF StopAliased(a, h) /\ x = a.stop_str.at THEN StopOf(a, h)
        ELSE h[x]]

\* a normalisation that does not floor top_p
NormTopPNoFloor(temperature, top_p) ==
    IF temperature <= Eps THEN One ELSE top_p

\* top_p = max(top_p, 1e-5); if temperature <= 1e-5: top_p = 1.0
NormTopP(temperature, top_p) ==
    LET floored == IF top_p > Eps THEN top_p ELSE Eps
    IN  IF temperature <= Eps THEN One ELSE floored

\* the value generate_stream yields for one engine output
TextOutputs(request_output, echo) ==
    LET outs == request_output.outputs
        text_outputs ==
            IF echo
            THEN [k \in 1..Len(outs) |-> request_output.prompt \o outs[k].text]
            ELSE [k \in 1..Len(outs) |-> outs[k].text]
        rebound == outs[Len(outs)].text
    IN  rebound

\* an except clause that catches everything
ExceptAll(e) == "StopIteration"

\* what the consumer's next() ends with when gen.__anext__() raises e:
\* `except StopAsyncIteration: break` ends the iteration, anything else passes
Except(e) == IF e = "StopAsyncIteration" THEN "StopIteration" ELSE e

\* a bridge that drops the value
YieldNothing(seq, value) == seq

\* `yield value`: the consumer receives the value
Yield(seq, value) == Append(seq, value)

\* a loop that runs the generator whether or not the consumer asked
DrivenEager(i) == gen[i].pc \in {"driving", "ready"}

\* the thread is inside loop.run_until_complete(gen.__anext__()) of instance i
Driven(i) == gen[i].pc = "driving"

\* the one thread is inside some run_until_complete: no consumer code runs
Blocked == \E j \in Insts : gen[j].pc \in {"driving", "got"}

\* the consumer calls sync_but_yield: a generator object, none of its body run
sync_but_yield(i, a) ==
    /\ ~Blocked
    /\ gen[i].pc \in {"none", "stopped", "failed"}
    /\ gen[i].n < MaxRequests
    /\ a.request_id = gen[i].n + 1
    /\ gen' = [gen EXCEPT ![i] = [NoGen EXCEPT !.pc = "created", !.args = a,
                                                !.n = gen[i].n + 1]]
    /\ produced' = [produced EXCEPT ![i] = <<>>]
    /\ delivered' = [delivered EXCEPT ![i] = <<>>]
    /\ pulls' = [pulls EXCEPT ![i] = 0]
    /\ ended' = [ended EXCEPT ![i] = "none"]
    /\ UNCHANGED <<engine, eengine, heap, rvars>>

\* the consumer's first next(): sync_but_yield runs to its first __anext__, which
\* runs generate_stream from its top to the call of the global engine.generate
generate_stream(i) ==
    LET a == gen[i].args IN
    /\ ~Blocked
    /\ gen[i].pc = "created"
    /\ pulls' = [pulls EXCEPT ![i] = @ + 1]
    /\ heap' = HeapAfter(a, heap)
    /\ IF engine = Unbound
       THEN /\ gen' = [gen EXCEPT ![i].pc = "failed", ![i].raised = "NameError"]
            /\ ended' = [ended EXCEPT ![i] = Except("NameError")]
       ELSE /\ gen' = [gen EXCEPT
                         ![i].pc = "driving",
                         ![i].by = engine,
                         ![i].sampling_params =
                             SamplingParams(a.temperature,
                                            NormTopP(a.temperature, a.top_p),
                                            StopOf(a, heap), a.max_new_tokens)]
            /\ UNCHANGED ended
    /\ UNCHANGED <<engine, eengine, produced, delivered, rvars>>

\* a later next(): the loop runs gen.__anext__() once more
anext(i) ==
    /\ ~Blocked
    /\ gen[i].pc = "ready"
    /\ pulls' = [pulls EXCEPT ![i] = @ + 1]
    /\ gen' = [gen EXCEPT ![i].pc = "driving"]
    /\ UNCHANGED <<engine, eengine, heap, produced, delivered, ended, rvars>>

\* the engine's generator hands generate_stream its next request_output
engine_yield(i, text) ==
    /\ Driven(i)
    /\ Len(produced[i]) < MaxIncr
    /\ produced' = [produced EXCEPT ![i] =
                      Append(@, RequestOutput(gen[i].by, gen[i].args.request_id,
                                              gen[i].args.prompt, text))]
    /\ gen' = [gen EXCEPT ![i].pc = "got"]
    /\ UNCHANGED <<engine, eengine, heap, delivered, pulls, ended, rvars>>

\* generate_stream yields, run_until_complete returns, the bridge yields the value
generate_stream_yield(i) ==
    /\ gen[i].pc = "got"
    /\ delivered' = [delivered EXCEPT ![i] =
                       Yield(@, TextOutputs(produced[i][Len(produced[i])],
                                            gen[i].args.echo))]
    /\ gen' = [gen EXCEPT ![i].pc = "ready"]
    /\ UNCHANGED <<engine, eengine, heap, produced, pulls, ended, rvars>>

\* the engine's generator completes (StopAsyncIteration) or an inference step
\* raises; generate_stream has no handler, sync_but_yield has the one
engine_end(i, e) ==
    /\ Driven(i)
    /\ gen' = [gen EXCEPT ![i].raised = e,
                          ![i].pc = IF Except(e) = "StopIteration"
                                    THEN "stopped" ELSE "failed"]
    /\ ended' = [ended EXCEPT ![i] = Except(e)]
    /\ UNCHANGED <<engine, eengine, heap, produced, delivered, pulls, rvars>>

StepBridge(i, argset) ==
    \/ \E a \in argset : sync_but_yield(i, a)
    \/ generate_stream(i)
    \/ anext(i)
    \/ \E text \in Texts : engine_yield(i, text)
    \/ generate_stream_yield(i)
    \/ \E e \in {"StopAsyncIteration", "RuntimeError"} : engine_end(i, e)

\* artifact resolution at rest
Resting ==
    /\ fs = [d \in Paths |-> Absent]
    /\ pc = [p \in Procs |-> "idle"]
    /\ ref = [p \in Procs |-> NoRef]
    /\ res = [p \in Procs |-> NoRes]
    /\ trace = [p \in Procs |-> <<>>]
    /\ obs = [p \in Procs |-> NoObs]
    /\ dl = [p \in Procs |-> NoDl]
    /\ stdin = [p \in Procs |-> NoPipe]
    /\ calls = [p \in Procs |-> 0]
    /\ returned = [p \in Procs |-> {}]

(* Two EEngine instances on one thread, their pulls interleaved *)

InitBridge == Resting /\ engine \in Engines \cup {Unbound} /\ Constructed

NextBridge == \E i \in Insts : StepBridge(i, DefaultArgs)

SpecBridge == InitBridge /\ [][NextBridge]_vars

(* One EEngine instance serving requests one after another *)

InitRequest == Resting /\ engine = "A" /\ Constructed

NextRequest == StepBridge("e1", RequestArgs)

SpecRequest == InitRequest /\ [][NextRequest]_vars

-----------------------------------------------------------------------------
(* Properties *)

Has(t, ev) == \E k \in 1..Len(t) : t[k] = ev
Count(t, ev) == Cardinality({k \in 1..Len(t) : t[k] = ev})
IsPrefix(t, u) == Len(t) <= Len(u) /\ SubSeq(u, 1, Len(t)) = t

Done(p) == pc[p] = "done"
IsHttp(r) == ~r.isList /\ (UrlScheme(r.s) = S_http \/ UrlScheme(r.s) = S_https)
IsLocal(r) == ~r.isList /\ (UrlScheme(r.s) = S_file \/ UrlScheme(r.s) = <<>>)
IsOther(r) == ~r.isList /\ ~IsHttp(r) /\ ~IsLocal(r)
DirNonEmpty(path) == Exists(fs, path) /\ fs[Abs(path)].files # {}

\* C1: whenever resolve_model_path returns a value, that value is the path of
\* a directory that exists and is non-empty.
C1_ReturnedDirNonEmpty ==
    \A p \in Procs :
        Done(p) /\ res[p].kind = "ok" => DirNonEmpty(res[p].val)

\* C2 as stated: the Hub probe runs only for a reference that is not a list,
\* not an http(s) URL and not a file/empty-scheme reference; a list invokes
\* only download_multi and an http(s) URL only download_tarball.
C2_ProbeAfterLocalSchemes ==
    \A p \in Procs :
        /\ Has(trace[p], "is_hf_model") => IsOther(ref[p])
        /\ ref[p].isList /\ ref[p] # NoRef =>
              \A k \in 1..Len(trace[p]) :
                  trace[p][k] \in {"download_multi", "makedirs", "spawn", "write",
                                   "close", "exit", "return"}
        /\ IsHttp(ref[p]) =>
              \A k \in 1..Len(trace[p]) :
                  trace[p][k] \in {"download_tarball", "spawn", "exit", "return",
                                   "raise"}

\* C2 amended: the order is list, http/https, Hub probe, file/empty scheme.
\* The probe runs exactly for the references that are neither a list nor an
\* http(s) URL, the local path is validated (or the scheme rejected) only
\* after the probe answered false, the Hub download runs only after it
\* answered true; a list invokes only download_multi and an http(s) URL only
\* download_tarball.
C2_ProbeBeforeLocalSchemes ==
    \A p \in Procs :
        /\ Has(trace[p], "is_hf_model") => IsLocal(ref[p]) \/ IsOther(ref[p])
        /\ (IsLocal(ref[p]) \/ IsOther(ref[p])) /\ pc[p] \notin {"idle", "probe"}
              => trace[p] # <<>>
        /\ (IsLocal(ref[p]) \/ IsOther(ref[p])) /\ trace[p] # <<>>
              => Head(trace[p]) = "is_hf_model" /\ Count(trace[p], "is_hf_model") = 1
        /\ Has(trace[p], "local_path") \/ Has(trace[p], "unsupported")
              => obs[p].probe = "false" /\ Head(trace[p]) = "is_hf_model"
        /\ Has(trace[p], "snapshot_download")
              => obs[p].probe = "true" /\ Head(trace[p]) = "is_hf_model"
        /\ ref[p].isList =>
              \A k \in 1..Len(trace[p]) :
                  trace[p][k] \in {"download_multi", "makedirs", "spawn", "write",
                                   "close", "exit", "return"}
        /\ IsHttp(ref[p]) =>
              \A k \in 1..Len(trace[p]) :
                  trace[p][k] \in {"download_tarball", "spawn", "exit", "return",
                                   "raise"}

\* a bare path was probed first and then validated and returned
C2_Witness ==
    \E p \in Procs :
        /\ Done(p) /\ ref[p] = StrRef(PathD)
        /\ trace[p] = <<"is_hf_model", "local_path">>
        /\ res[p] = Ok(PathD)

\* C3 as stated: for a file/empty-scheme reference, whatever the Hub answers
\* (true or false; a lookup that raised gave no answer and is left aside),
\* the call succeeds iff the path exists and its listing is non-empty and then
\* returns the reference unchanged; a missing path and an empty directory
\* fail with errors whose codes differ.
C3_LocalWhateverHubAnswers ==
    \A p \in Procs :
        Done(p) /\ IsLocal(ref[p]) /\ obs[p].probe \in {"true", "false"} =>
            /\ res[p].kind = "ok" <=> DirNonEmpty(UrlPath(ref[p].s))
            /\ res[p].kind = "ok" => res[p].val = ref[p].s
            /\ ~Exists(fs, UrlPath(ref[p].s)) => res[p].what = "does not exist"
            /\ Exists(fs, UrlPath(ref[p].s)) /\ ~DirNonEmpty(UrlPath(ref[p].s))
                  => res[p].what = "is empty"
            /\ res[p].what = "does not exist" =>
                  LocalResult([fs EXCEPT ![Abs(UrlPath(ref[p].s))] = EmptyDir],
                              ref[p].s).code # res[p].code

\* C3 amended: for a file/empty-scheme reference for which the Hub probe
\* answered false, the call succeeds iff the path exists and its listing is
\* non-empty and then returns the reference unchanged; a missing path and an
\* empty directory both fail with a ValueError of code E1000, told apart by
\* the message only.  When the probe answers true the Hub snapshot is
\* returned instead, and when the lookup raises, that exception is the
\* outcome: in neither case is the local path looked at.
C3_LocalAfterProbeFalse ==
    \A p \in Procs :
        Done(p) /\ IsLocal(ref[p]) =>
            /\ obs[p].probe = "false" =>
                /\ res[p].kind = "ok" <=> DirNonEmpty(UrlPath(ref[p].s))
                /\ res[p].kind = "ok" => res[p].val = ref[p].s
                /\ ~Exists(fs, UrlPath(ref[p].s)) =>
                      res[p] = Raise("ValueError", "E1000", "does not exist",
                                     UrlPath(ref[p].s))
                /\ Exists(fs, UrlPath(ref[p].s)) /\ ~DirNonEmpty(UrlPath(ref[p].s))
                      => res[p] = Raise("ValueError", "E1000", "is empty",
                                        UrlPath(ref[p].s))
            /\ obs[p].probe = "true" =>
                /\ ~Has(trace[p], "local_path")
                /\ Has(trace[p], "snapshot_download")
                /\ res[p].kind = "ok" => res[p].val = HubSnapshot(ref[p].s)
            /\ obs[p].probe = "raised" =>
                /\ ~Has(trace[p], "local_path")
                /\ res[p] = Raise(obs[p].lookup, "", "", <<>>)
            /\ obs[p].probe # "none"

\* a file:// URL of a populated directory came back unchanged
C3_Witness ==
    \E p \in Procs :
        /\ Done(p) /\ ref[p] = StrRef(FileD) /\ obs[p].probe = "false"
        /\ fs[<<"/", "d">>].files # {}
        /\ res[p] = Ok(FileD)

\* C4: is_hf_model never raises; every lookup failure becomes false, and it
\* answers true only when the lookup succeeded.
C4_ProbeNeverRaises ==
    \A p \in Procs :
        /\ obs[p].probe # "raised"
        /\ obs[p].probe = "true" => obs[p].lookup = "ok"
        /\ obs[p].lookup \notin {"", "ok"} => obs[p].probe = "false"

\* C5: a call of download_tarball that finds its cache directory existing and
\* non-empty returns cwd/models/<basename without extension> without spawning
\* the downloader, and all calls for one URL return one and the same path.
C5_TarballIdempotent ==
    \A p \in Procs :
        /\ Done(p) /\ IsHttp(ref[p]) /\ obs[p].hit =>
              /\ res[p] = Ok(Cwd \o <<"/">> \o S_models \o <<"/">>
                             \o TarFilename(ref[p].s))
              /\ ~Has(trace[p], "spawn")
              /\ dl[p] = NoDl
        /\ \A x \in returned[p] : \A y \in returned[p] : x[1] = y[1] => x[2] = y[2]
        /\ Done(p) /\ IsHttp(ref[p]) /\ res[p].kind = "ok" =>
              <<ref[p].s, res[p].val>> \in returned[p]

\* the second call for a URL found what the first call's download left
C5_Witness ==
    \E p \in Procs :
        /\ Done(p) /\ calls[p] = 2 /\ ref[p] = StrRef(UrlA) /\ obs[p].hit
        /\ File(<<"w">>, UrlA) \in fs[TarPath(UrlA)].files
        /\ res[p].val = <<"/","w","/","m","o","d","e","l","s","/","a">>
        /\ ~Has(trace[p], "spawn")

\* C6: when the downloader download_tarball spawned exits non-zero, the call
\* raises the download-failed error (CalledProcessError), returns no path,
\* and has spawned the downloader exactly once.
C6_TarballFailureRaises ==
    \A p \in Procs :
        Done(p) /\ IsHttp(ref[p]) /\ dl[p].st = "exited" /\ dl[p].code # 0 =>
            /\ res[p] = Raise("CalledProcessError", "", "", <<>>)
            /\ Count(trace[p], "spawn") = 1
            /\ trace[p][Len(trace[p])] = "raise"
            /\ ~Has(trace[p], "return")

\* the downloader of "http://h/a.t" exited with 1 and the call raised
C6_Witness ==
    \E p \in Procs :
        /\ Done(p) /\ ref[p] = StrRef(UrlA)
        /\ dl[p].st = "exited" /\ dl[p].code = 1
        /\ res[p].exc = "CalledProcessError"

\* C7: when the downloader download_multi spawned exits non-zero,
\* download_multi raises and does not return the output directory.
C7_MultiFailureRaises ==
    \A p \in Procs :
        Done(p) /\ ref[p].isList /\ dl[p].st = "exited" /\ dl[p].code # 0 =>
            res[p].kind = "err"

\* C8: the manifest written to the downloader has one line per URL, in the
\* order of the list, line i being the URL, one space, and the output
\* directory joined with the URL's basename; lines are separated by "\n".
C8_ManifestCorrect ==
    \A p \in Procs :
        ref[p].isList /\ Has(trace[p], "write") =>
            LET lines == IF stdin[p].buf = <<>> THEN <<>>
                         ELSE SplitOn(stdin[p].buf, "\n")
                D == <<"/","w","/","m","o","d","e","l">>
            IN  /\ Len(lines) = Len(ref[p].urls)
                /\ \A i \in 1..Len(lines) :
                      lines[i] = ref[p].urls[i] \o <<" ">> \o D \o <<"/">>
                                   \o Basename(ref[p].urls[i])

\* the manifest of ["http://h/a.t", "http://h/b.t"] is
\* "http://h/a.t /w/model/a.t\nhttp://h/b.t /w/model/b.t"
C8_Witness ==
    \E p \in Procs :
        /\ ref[p] = ListRef(<<UrlA, UrlB>>)
        /\ stdin[p].buf =
              <<"h","t","t","p",":","/","/","h","/","a",".","t"," ",
                "/","w","/","m","o","d","e","l","/","a",".","t","\n",
                "h","t","t","p",":","/","/","h","/","b",".","t"," ",
                "/","w","/","m","o","d","e","l","/","b",".","t">>

\* C9: a call of download_multi makes the output directory if absent, spawns
\* the downloader, writes the whole manifest, closes stdin, and returns only
\* once the downloader has exited; it spawns the downloader exactly once,
\* also when the output directory was already populated.
C9_MultiProtocolOrder ==
    \A p \in Procs :
        ref[p].isList =>
            LET own == SelectSeq(trace[p], LAMBDA ev : ev # "exit")
            IN  /\ \/ IsPrefix(own, <<"download_multi", "makedirs", "spawn",
                                      "write", "close", "return">>)
                   \/ IsPrefix(own, <<"download_multi", "spawn", "write",
                                      "close", "return">>)
                /\ Has(own, "spawn") => Exists(fs, OutDir)
                /\ Has(own, "close") =>
                      ~stdin[p].open /\ stdin[p].buf = Manifest(ref[p].urls, OutDir)
                /\ Has(own, "return") =>
                      /\ dl[p].st = "exited"
                      /\ trace[p][Len(trace[p])] = "return"
                /\ Done(p) =>
                      /\ Count(trace[p], "spawn") = 1
                      /\ Count(trace[p], "exit") = 1
                      /\ Has(own, "close")

\* a call that found the output directory populated spawned the downloader
C9_Witness ==
    \E p \in Procs :
        /\ Done(p) /\ ref[p].isList /\ obs[p].hit
        /\ Count(trace[p], "spawn") = 1
        /\ res[p] = Ok(OutDir)

\* C10: a reference whose scheme is none of http, https, file or empty and
\* for which the probe answered false fails with the unsupported-scheme
\* error naming the scheme; no downloader is spawned and nothing is
\* downloaded from the Hub.
C10_UnsupportedScheme ==
    \A p \in Procs :
        Done(p) /\ IsOther(ref[p]) /\ obs[p].probe = "false" =>
            /\ res[p] = Raise("ValueError", "E1000",
                              "Unsupported model path scheme", UrlScheme(ref[p].s))
            /\ ~Has(trace[p], "spawn")
            /\ ~Has(trace[p], "snapshot_download")
            /\ dl[p] = NoDl

\* "ftp://h/p" was rejected with the scheme ftp
C10_Witness ==
    \E p \in Procs :
        /\ Done(p) /\ ref[p] = StrRef(FtpP) /\ obs[p].probe = "false"
        /\ res[p].kind = "err"
        /\ res[p].arg = <<"f", "t", "p">>

\* C16: nothing coordinates two processes resolving one URL: a process about
\* to test a cache directory that holds what the other's still-running
\* downloader has written so far can take the short-circuit and return the
\* path at once.
C16_NoCoordination ==
    \A p \in Procs : \A q \in Procs \ {p} :
        /\ pc[q] = "tarball"
        /\ dl[p].st = "running"
        /\ dl[p].dest = TarPath(ref[q].s)
        /\ File(<<"w">>, dl[p].url) \in fs[dl[p].dest].files
        => ENABLED (/\ download_tarball(q)
                    /\ pc'[q] = "done"
                    /\ res'[q] = Ok(TarPath(ref[q].s)))

\* the second process returned the path of "http://h/a.t" while the first
\* one's downloader was still running and no downloader had exited
C16_Witness ==
    \E p \in Procs : \E q \in Procs \ {p} :
        /\ calls[p] = 1 /\ calls[q] = 1
        /\ ref[p] = StrRef(UrlA) /\ ref[q] = StrRef(UrlA)
        /\ pc[p] = "tar_wait" /\ dl[p].st = "running"
        /\ Done(q) /\ obs[q].hit /\ dl[q] = NoDl
        /\ res[q] = Ok(dl[p].dest)
        /\ fs[dl[p].dest].files = {File(<<"w">>, UrlA)}

\* C19: the directory download_tarball returns for a URL holds nothing that
\* this run fetched from another URL; a call never takes the short-circuit
\* onto what an earlier call downloaded from a different URL.
C19_DistinctUrlsDistinctArtifacts ==
    \A p \in Procs :
        Done(p) /\ IsHttp(ref[p]) /\ res[p].kind = "ok" =>
            \A x \in fs[res[p].val].files : x.src # <<>> => x.src = ref[p].s

-----------------------------------------------------------------------------
(* Properties of the streaming bridge *)

\* the text of the last completion of an engine output
LastText(request_output) ==
    request_output.outputs[Len(request_output.outputs)].text

\* the consumer has received the text of every engine output, in the engine's order
DeliveredInOrder(i) ==
    /\ Len(delivered[i]) = Len(produced[i])
    /\ \A k \in 1..Len(produced[i]) : delivered[i][k] = LastText(produced[i][k])

\* C11: whenever the bridge is at rest after a value or after normal completion,
\* the consumer has received exactly the engine's increments, one per pull and in
\* the engine's order; normal completion of the engine's generator ends the
\* iteration with StopIteration on the pull after the last value, no exception.
C11_BridgeOrdering ==
    \A i \in Insts :
        /\ gen[i].pc \in {"ready", "stopped"} => DeliveredInOrder(i)
        /\ gen[i].pc = "ready" => pulls[i] = Len(delivered[i])
        /\ gen[i].raised = "StopAsyncIteration" =>
               /\ gen[i].pc = "stopped"
               /\ ended[i] = "StopIteration"
               /\ pulls[i] = Len(delivered[i]) + 1

C11_Witness ==
    \E i \in Insts :
        /\ gen[i].pc = "stopped"
        /\ gen[i].raised = "StopAsyncIteration"
        /\ delivered[i] = <<(<<"a">>), (<<"b">>)>>
        /\ pulls[i] = 3

\* C12: the engine outputs taken are never more than the values the consumer has
\* asked for; before the first pull nothing of generate_stream has run (no engine
\* called, no output taken); and while the consumer holds a value and is not
\* pulling, the outputs taken are exactly as many as the pulls made.
C12_LazyOneStepPerPull ==
    \A i \in Insts :
        /\ Len(produced[i]) <= pulls[i]
        /\ pulls[i] = 0 =>
               /\ gen[i].pc \in {"none", "created"}
               /\ gen[i].by = "none"
               /\ produced[i] = <<>>
        /\ gen[i].pc = "ready" => Len(produced[i]) = pulls[i]

C12_Witness ==
    \E i \in Insts : \E j \in Insts \ {i} :
        /\ gen[i].pc = "ready" /\ pulls[i] = 2 /\ Len(produced[i]) = 2
        /\ gen[j].pc = "created" /\ pulls[j] = 0 /\ gen[j].by = "none"

\* C13: when a step of the asynchronous generator raises anything but
\* StopAsyncIteration, the consumer's pull that drove the step ends with that very
\* exception, the iteration does not end normally, and every output taken before
\* it has been delivered in order.
C13_ExceptionPropagates ==
    \A i \in Insts :
        gen[i].raised \notin {"none", "StopAsyncIteration"} =>
            /\ gen[i].pc = "failed"
            /\ ended[i] = gen[i].raised
            /\ pulls[i] = Len(produced[i]) + 1
            /\ DeliveredInOrder(i)

C13_Witness ==
    \E i \in Insts :
        /\ gen[i].raised = "RuntimeError"
        /\ ended[i] = "RuntimeError"
        /\ Len(delivered[i]) = 2
        /\ pulls[i] = 3

\* C14: the top_p of the SamplingParams handed to the engine is 1.0 when the
\* temperature argument is at most 1e-5, and otherwise the larger of the top_p
\* argument and 1e-5; the temperature is handed on as given.
C14_TopPNormalized ==
    \A i \in Insts :
        gen[i].by # "none" =>
            LET a == gen[i].args
                sp == gen[i].sampling_params
            IN  /\ sp.temperature = a.temperature
                /\ a.temperature <= Eps => sp.top_p = One
                /\ a.temperature > Eps /\ a.top_p >= Eps => sp.top_p = a.top_p
                /\ a.temperature > Eps /\ a.top_p < Eps => sp.top_p = Eps

C14_Witness ==
    \E i \in Insts :
        /\ gen[i].by # "none"
        /\ gen[i].args.temperature = One
        /\ gen[i].args.top_p = 0
        /\ gen[i].sampling_params.top_p = Eps

\* C15: every value delivered is the prompt followed by the generated text when
\* echo is set, and the generated text alone when it is not.
C15_EchoPrefixesPrompt ==
    \A i \in Insts :
        \A k \in 1..Len(delivered[i]) :
            delivered[i][k] = IF gen[i].args.echo
                              THEN gen[i].args.prompt \o LastText(produced[i][k])
                              ELSE LastText(produced[i][k])

\* C17: the caller's list objects hold what they held before any request, and the
\* stop list handed to the engine is the one those original contents give.
C17_CallerListsUnchanged ==
    /\ heap = Heap0
    /\ \A i \in Insts :
           gen[i].by # "none" =>
               gen[i].sampling_params.stop = StopOf(gen[i].args, Heap0)

\* C18: every value an instance's bridge has delivered came from an output that
\* the engine the instance was constructed with produced for the instance's
\* current request.
C18_OwnEngine ==
    \A i \in Insts :
        \A k \in 1..Len(delivered[i]) :
            /\ produced[i][k].by = eengine[i].engine
            /\ produced[i][k].request_id = gen[i].args.request_id

====
